---- MODULE Spec2Model ----
(***************************************************************************)
(* Model of ContentAnalyzer (src/safety.ipynb): the frame sampler          *)
(* extract_frames, the two analysis branches analyze_video/analyze_audio,  *)
(* the orchestrator analyze_content and the report store save_results.     *)
(*                                                                         *)
(* Two specifications:                                                     *)
(*   SpecFrames  extract_frames and the video request of analyze_video as  *)
(*               functions of (frame count, cap, per-index decode result); *)
(*   Spec        a sequence of analyze_content invocations against a file  *)
(*               system, a wall clock and the inference service.           *)
(***************************************************************************)
EXTENDS Integers, Sequences, FiniteSets, TLC

VARIABLES
    pc,             \* position of the single thread: idle / video / audio / save / done
    api_key,        \* credential the analyzer was constructed with
    video_file,     \* uploaded video of the current invocation, or None
    audio_file,     \* uploaded audio of the current invocation, or None
    results,        \* the dict built by analyze_content (lines 35-39)
    result,         \* value returned by the last analyze_content call
    now,            \* wall clock, in ticks
    files,          \* output directory: file name |-> persisted report
    tempFiles,      \* temporary media files the current invocation created and left on disk
    unreleasedCaps, \* capture handles the current invocation opened and never release()d
    requests,       \* requests sent to the inference service by the current invocation
    log,            \* logger messages of the current invocation
    faults,         \* exceptions raised inside the current invocation
    returned,       \* reports returned so far, one per invocation that returned a report
    nCalls,         \* number of analyze_content invocations started
    fVideo,         \* SpecFrames: the video handed to extract_frames
    fMax,           \* SpecFrames: max_frames
    fOut,           \* SpecFrames: what extract_frames produced, or None
    fReq            \* SpecFrames: the request analyze_video builds from fOut, or None

vars == <<pc, api_key, video_file, audio_file, results, result, now, files,
          tempFiles, unreleasedCaps, requests, log, faults, returned, nCalls,
          fVideo, fMax, fOut, fReq>>

None == [none |-> TRUE]

Max(a, b) == IF a >= b THEN a ELSE b

Min(a, b) == IF a <= b THEN a ELSE b

Take(s, n) == SubSeq(s, 1, Min(n, Len(s)))

(***************************************************************************)
(* Bounds                                                                  *)
(***************************************************************************)
MaxT == 6           \* frame counts 0..MaxT are enumerated exhaustively
MaxCap == 4         \* caps 1..MaxCap are enumerated exhaustively
MaxInvocations == 2 \* analyze_content invocations per behaviour
MaxNow == 2         \* last clock tick
TicksPerSecond == 2 \* clock resolution below the second

(***************************************************************************)
(* Program constants                                                       *)
(***************************************************************************)
DefaultMaxFrames == 10
RequestFrameCap == 10

(***************************************************************************)
(* Media decode boundary.  A video is its frame count plus, per index,     *)
(* what seek-and-read does there: returns a frame ("ok"), returns          *)
(* ret = False ("fail"), or raises.                                        *)
(***************************************************************************)
Video(count, bad, raising) == [count |-> count, bad |-> bad, raising |-> raising]

SeekAndRead(video, i) ==
    IF i \in video.raising THEN "raise"
    ELSE IF i \in video.bad THEN "fail"
    ELSE "ok"

Frame(i) == [index |-> i, channels |-> "BGR"]

IntervalOffByOne(total_frames, max_frames) == total_frames \div max_frames + 1

Interval(total_frames, max_frames) == Max(1, total_frames \div max_frames)

RECURSIVE FrameLoop(_, _, _, _, _)
FrameLoop(video, i, interval, max_frames, acc) ==
    IF i >= video.count THEN acc
    ELSE LET r == SeekAndRead(video, i)
             seen == [acc EXCEPT !.visited = Append(@, i)]
         IN  IF r = "raise" THEN [seen EXCEPT !.raised = TRUE]
             ELSE LET acc1 == IF r = "ok"
                              THEN [seen EXCEPT !.frames = Append(@, Frame(i))]
                              ELSE seen
                  IN  IF Len(acc1.frames) >= max_frames THEN acc1
                      ELSE FrameLoop(video, i + interval, interval, max_frames, acc1)

extract_frames(video, max_frames) ==
    LET r == FrameLoop(video, 0, Interval(video.count, max_frames), max_frames,
                       [frames |-> <<>>, visited |-> <<>>, raised |-> FALSE])
    IN  [frames |-> r.frames, visited |-> r.visited, raised |-> r.raised,
         released |-> ~r.raised]

(***************************************************************************)
(* PromptBuilder, video side (lines 75-90).                                *)
(***************************************************************************)
ToPil(frame) == [image |-> frame.index, channels |-> "RGB"]

VideoRequestShort(frames) ==
    LET pil_frames == [k \in 1..Len(frames) |-> ToPil(frames[k])]
    IN  [kind |-> "video", text |-> "video_prompt",
         images |-> Take(pil_frames, RequestFrameCap - 1)]

VideoRequest(frames) ==
    LET pil_frames == [k \in 1..Len(frames) |-> ToPil(frames[k])]
    IN  [kind |-> "video", text |-> "video_prompt",
         images |-> Take(pil_frames, RequestFrameCap)]

(***************************************************************************)
(* Audio side: extract_audio_features (lines 145-154) and the prompt of    *)
(* analyze_audio (lines 103-117).  A feature value is a non-negative       *)
(* decimal held as an integer count of 1/FeatureScale.                     *)
(***************************************************************************)
FeatureScale == 1000000

RECURSIVE Pow10(_)
Pow10(d) == IF d = 0 THEN 1 ELSE 10 * Pow10(d - 1)

RoundHalfEven(v, q) ==
    LET fl == v \div q
        r == v % q
    IN  IF 2 * r < q THEN fl
        ELSE IF 2 * r > q THEN fl + 1
        ELSE IF fl % 2 = 0 THEN fl ELSE fl + 1

\* format(x, ".<places>f"): integer part and exactly <places> fractional digits
FormatFixed(v, places) ==
    LET n == RoundHalfEven(v, FeatureScale \div Pow10(places))
    IN  [int |-> n \div Pow10(places),
         frac |-> [k \in 1..places |-> (n \div Pow10(places - k)) % 10]]

Features(d, e, c, z) ==
    [duration |-> d, rms_energy |-> e, spectral_centroid |-> c, zero_crossing_rate |-> z]

Audio(loadable, features) == [loadable |-> loadable, features |-> features]

AudioPromptEnergy2(features) ==
    [kind |-> "audio", text |-> "audio_prompt",
     Duration |-> FormatFixed(features.duration, 2),
     Energy |-> FormatFixed(features.rms_energy, 2),
     Spectral |-> FormatFixed(features.spectral_centroid, 2),
     Voice |-> FormatFixed(features.zero_crossing_rate, 4)]

AudioPrompt(features) ==
    [kind |-> "audio", text |-> "audio_prompt",
     Duration |-> FormatFixed(features.duration, 2),
     Energy |-> FormatFixed(features.rms_energy, 4),
     Spectral |-> FormatFixed(features.spectral_centroid, 2),
     Voice |-> FormatFixed(features.zero_crossing_rate, 4)]

(***************************************************************************)
(* Inference service boundary.  The client is configured with api_key      *)
(* without any check (lines 16-24); the service rejects a call made with   *)
(* a credential that is not valid, and may fail a call for other reasons.  *)
(***************************************************************************)
ApiKeys == {"", "invalid", "valid"}

ServiceAccepts(key) == key = "valid"

Verdict == [text |-> "assessment"]

(***************************************************************************)
(* analyze_video (lines 68-95).  fault names the statement that raises     *)
(* in this call, if any; every exception is caught at line 93.             *)
(***************************************************************************)
analyze_video(video, fault, key) ==
    LET ef == extract_frames(video, DefaultMaxFrames)
        req == VideoRequest(ef.frames)
        failed(what, sent) ==
            [value |-> None, requests |-> sent, faults |-> {what},
             log |-> <<"Error in video analysis">>,
             caps |-> IF ef.released THEN 0 ELSE 1]
    IN  IF ef.raised THEN failed("video_seek_read", <<>>)
        ELSE IF fault = "convert" /\ ef.frames # <<>> THEN failed("video_convert", <<>>)
        ELSE IF fault = "inference" \/ ~ServiceAccepts(key)
             THEN failed("video_inference", <<req>>)
        ELSE [value |-> Verdict, requests |-> <<req>>, faults |-> {},
              log |-> <<>>, caps |-> 0]

(***************************************************************************)
(* analyze_audio (lines 97-125); librosa.load raises on undecodable audio. *)
(***************************************************************************)
analyze_audio(audio, fault, key) ==
    LET req == AudioPrompt(audio.features)
        failed(what, sent) ==
            [value |-> None, requests |-> sent, faults |-> {what},
             log |-> <<"Error in audio analysis">>]
    IN  IF ~audio.loadable THEN failed("audio_load", <<>>)
        ELSE IF fault = "inference" \/ ~ServiceAccepts(key)
             THEN failed("audio_inference", <<req>>)
        ELSE [value |-> Verdict, requests |-> <<req>>, faults |-> {}, log |-> <<>>]

(***************************************************************************)
(* Wall clock and the two timestamp formats.                               *)
(***************************************************************************)
\* datetime.now().isoformat(): sub-second resolution
Isoformat(t) == [second |-> t \div TicksPerSecond, fraction |-> t % TicksPerSecond]

\* datetime.now().strftime('%Y%m%d_%H%M%S'): whole seconds
Strftime(t) == t \div TicksPerSecond

OutputFile(t) == [dir |-> "analysis_results", stamp |-> Strftime(t)]

\* open(output_file, 'w') followed by json.dump: replaces a file of that name
WriteFile(dir, name, content) ==
    {f \in dir : f.name # name} \cup {[name |-> name, content |-> content]}

NewResultsStale(t) ==
    [timestamp |-> Isoformat(t), video_analysis |-> Verdict, audio_analysis |-> None]

NewResults(t) ==
    [timestamp |-> Isoformat(t), video_analysis |-> None, audio_analysis |-> None]

IsReport(r) == DOMAIN r = {"timestamp", "video_analysis", "audio_analysis"}

IsError(r) == DOMAIN r = {"error"}

(***************************************************************************)
(* Inputs of an invocation                                                 *)
(***************************************************************************)
VideoUploads ==
    { Video(0, {}, {}),          \* corrupt bytes: nothing opens, frame count 0
      Video(2, {0, 1}, {}),      \* every seek-and-read returns no frame
      Video(12, {1}, {}),
      Video(100, {}, {}),
      Video(3, {}, {1}) }        \* seek/read raises at index 1

AudioUploads ==
    { Audio(FALSE, Features(0, 0, 0, 0)),                       \* undecodable
      Audio(TRUE, Features(3000000, 0, 0, 0)),                  \* 3 s of silence
      Audio(TRUE, Features(125000, 4960, 1523456789, 87654)) }  \* 0.125 s, rms 0.00496

\* "upload": line 45 (read of the upload, write of the temporary file) raises
VideoFaults == {"none", "upload", "convert", "inference"}

\* "upload": line 54 raises
AudioFaults == {"none", "upload", "inference"}

(***************************************************************************)
(* SpecFrames                                                              *)
(***************************************************************************)
FrameCounts == (0..MaxT) \cup {25, 100}

Caps == (1..MaxCap) \cup {DefaultMaxFrames}

FrameVideos ==
    {Video(t, b, {}) : t \in FrameCounts, b \in SUBSET (0..(MaxT - 1))}
    \cup {Video(t, {}, {r}) : t \in FrameCounts, r \in 0..(MaxT - 1)}

InitFrames ==
    /\ fVideo \in FrameVideos
    /\ fMax \in Caps
    /\ fOut = None
    /\ fReq = None
    /\ pc = "frames"
    /\ api_key = "" /\ video_file = None /\ audio_file = None
    /\ results = None /\ result = None /\ now = 0
    /\ files = {} /\ tempFiles = {} /\ unreleasedCaps = 0
    /\ requests = <<>> /\ log = <<>> /\ faults = {}
    /\ returned = <<>> /\ nCalls = 0

FramesExtract ==
    /\ pc = "frames"
    /\ fOut' = extract_frames(fVideo, fMax)
    /\ pc' = "extracted"
    /\ UNCHANGED <<fVideo, fMax, fReq>>
    /\ UNCHANGED <<api_key, video_file, audio_file, results, result, now, files,
                   tempFiles, unreleasedCaps, requests, log, faults, returned, nCalls>>

FramesRequest ==
    /\ pc = "extracted"
    /\ ~fOut.raised
    /\ fReq' = VideoRequest(fOut.frames)
    /\ pc' = "requested"
    /\ UNCHANGED <<fVideo, fMax, fOut>>
    /\ UNCHANGED <<api_key, video_file, audio_file, results, result, now, files,
                   tempFiles, unreleasedCaps, requests, log, faults, returned, nCalls>>

NextFrames == FramesExtract \/ FramesRequest

SpecFrames == InitFrames /\ [][NextFrames]_vars

(***************************************************************************)
(* Spec: analyze_content invocations                                       *)
(***************************************************************************)
Init ==
    /\ pc = "idle"
    /\ api_key = ""
    /\ video_file = None
    /\ audio_file = None
    /\ results = None
    /\ result = None
    /\ now = 0
    /\ files = {}
    /\ tempFiles = {}
    /\ unreleasedCaps = 0
    /\ requests = <<>>
    /\ log = <<>>
    /\ faults = {}
    /\ returned = <<>>
    /\ nCalls = 0
    /\ fVideo = None /\ fMax = DefaultMaxFrames /\ fOut = None /\ fReq = None

\* ContentAnalyzer(api_key).analyze_content(video, audio) up to line 39
Begin(key, video, audio, elapsed) ==
    /\ pc \in {"idle", "done"}
    /\ nCalls < MaxInvocations
    /\ now + elapsed <= MaxNow
    /\ now' = now + elapsed
    /\ api_key' = key
    /\ video_file' = video
    /\ audio_file' = audio
    /\ results' = NewResults(now')
    /\ result' = None
    /\ requests' = <<>>
    /\ log' = <<>>
    /\ faults' = {}
    /\ tempFiles' = {}
    /\ unreleasedCaps' = 0
    /\ nCalls' = nCalls + 1
    /\ pc' = "video"
    /\ UNCHANGED <<files, returned, fVideo, fMax, fOut, fReq>>

\* the "Analyze Content" button of main: enabled only with a key and a file
MainButton ==
    \E key \in ApiKeys, video \in VideoUploads \cup {None},
       audio \in AudioUploads \cup {None}, elapsed \in 0..MaxNow :
        /\ ~(key = "" \/ (video = None /\ audio = None))
        /\ Begin(key, video, audio, elapsed)

\* analyze_content called directly, with any arguments
DirectCall ==
    \E key \in ApiKeys \ {""}, video \in VideoUploads \cup {None},
       audio \in AudioUploads \cup {None}, elapsed \in 0..MaxNow :
        Begin(key, video, audio, elapsed)

ErrorResultPartial(e, partial) == partial

\* line 66: the value returned by the except clause
ErrorResult(e, partial) == [error |-> e]

\* lines 64-66: the exception is logged and turned into the return value;
\* keptTemp: the delete=False temporary file whose unlink was skipped
Escape(what, keptTemp, said) ==
    /\ result' = ErrorResult(what, results)
    /\ log' = log \o said \o <<"Error in analysis">>
    /\ faults' = faults \cup {what}
    /\ tempFiles' = tempFiles \cup keptTemp
    /\ pc' = "done"
    /\ UNCHANGED <<api_key, video_file, audio_file, results, files,
                   unreleasedCaps, requests, returned, nCalls,
                   fVideo, fMax, fOut, fReq>>

\* lines 42-48
VideoBranch ==
    /\ pc = "video"
    /\ IF video_file = None
       THEN /\ pc' = "audio"
            /\ UNCHANGED <<api_key, video_file, audio_file, results, result, now,
                           files, tempFiles, unreleasedCaps, requests, log, faults,
                           returned, nCalls, fVideo, fMax, fOut, fReq>>
       ELSE \E fault \in VideoFaults :
              LET tmp == [suffix |-> ".mp4"]
                  r == analyze_video(video_file, fault, api_key)
              IN  IF fault = "upload"
                  THEN /\ Escape("video_upload", {tmp}, <<"Analyzing video...">>)
                       /\ UNCHANGED now
                  ELSE
                       /\ results' = [results EXCEPT !.video_analysis = r.value]
                       /\ requests' = requests \o r.requests
                       /\ log' = log \o <<"Analyzing video...">> \o r.log
                       /\ faults' = faults \cup r.faults
                       /\ unreleasedCaps' = unreleasedCaps + r.caps
                       /\ pc' = "audio"
                       /\ UNCHANGED <<api_key, video_file, audio_file, result, now,
                                      files, tempFiles, returned, nCalls,
                                      fVideo, fMax, fOut, fReq>>

\* lines 51-57
AudioBranch ==
    /\ pc = "audio"
    /\ IF audio_file = None
       THEN /\ pc' = "save"
            /\ UNCHANGED <<api_key, video_file, audio_file, results, result, now,
                           files, tempFiles, unreleasedCaps, requests, log, faults,
                           returned, nCalls, fVideo, fMax, fOut, fReq>>
       ELSE \E fault \in AudioFaults :
              LET tmp == [suffix |-> ".wav"]
                  r == analyze_audio(audio_file, fault, api_key)
              IN  IF fault = "upload"
                  THEN /\ Escape("audio_upload", {tmp}, <<"Analyzing audio...">>)
                       /\ UNCHANGED now
                  ELSE
                       /\ results' = [results EXCEPT !.audio_analysis = r.value]
                       /\ requests' = requests \o r.requests
                       /\ log' = log \o <<"Analyzing audio...">> \o r.log
                       /\ faults' = faults \cup r.faults
                       /\ pc' = "save"
                       /\ UNCHANGED <<api_key, video_file, audio_file, result, now,
                                      files, tempFiles, unreleasedCaps, returned,
                                      nCalls, fVideo, fMax, fOut, fReq>>

\* lines 59-62 with save_results (lines 156-165)
SaveAndReturn ==
    /\ pc = "save"
    /\ \E writable \in BOOLEAN, elapsed \in 0..MaxNow :
         /\ now + elapsed <= MaxNow
         /\ now' = now + elapsed
         /\ IF writable
            THEN
              /\ files' = WriteFile(files, OutputFile(now'), results)
              /\ log' = log \o <<"Results saved">>
              /\ result' = results
              /\ returned' = Append(returned, results)
              /\ pc' = "done"
              /\ UNCHANGED <<api_key, video_file, audio_file, results, tempFiles,
                             unreleasedCaps, requests, faults, nCalls,
                             fVideo, fMax, fOut, fReq>>
            ELSE Escape("save", {}, <<>>)

Next == MainButton \/ DirectCall \/ VideoBranch \/ AudioBranch \/ SaveAndReturn

Spec == Init /\ [][Next]_vars

(***************************************************************************)
(* Properties                                                              *)
(***************************************************************************)
Range(s) == {s[k] : k \in 1..Len(s)}

\* the video cannot be decoded: no frames, or no index yields a frame
VideoDecodeFails(video) ==
    \/ video.count = 0
    \/ \A i \in 0..(video.count - 1) : SeekAndRead(video, i) = "fail"

VideoFaultNames == {"video_upload", "video_seek_read", "video_convert", "video_inference"}

AudioFaultNames == {"audio_upload", "audio_load", "audio_inference"}

\* C1: when both inputs are supplied, the video cannot be decoded and the
\* audio branch succeeds, the call returns a report whose video_analysis is
\* null and whose audio_analysis is not null.
C1_DecodeFailureGivesNullVideo ==
    ( /\ pc = "done"
      /\ video_file # None
      /\ audio_file # None
      /\ VideoDecodeFails(video_file)
      /\ results.audio_analysis # None
      /\ "save" \notin faults )
    => /\ IsReport(result)
       /\ result.video_analysis = None
       /\ result.audio_analysis # None

\* C2: an exception at any step of a branch (upload materialisation,
\* sampling/extraction, prompt building, inference) nulls only that branch's
\* field: the invocation still returns a report and the other branch, when
\* its input was supplied, has run.
C2_BranchFailuresIsolated ==
    ( /\ pc = "done"
      /\ faults # {}
      /\ "save" \notin faults )
    => /\ IsReport(result)
       /\ (faults \cap VideoFaultNames # {} =>
              /\ result.video_analysis = None
              /\ (audio_file # None => "Analyzing audio..." \in Range(log)))
       /\ (faults \cap AudioFaultNames # {} =>
              /\ result.audio_analysis = None
              /\ (video_file # None => "Analyzing video..." \in Range(log)))

\* C3: every invocation ends with a report or an error-tagged result, and a
\* failed save gives the error-tagged result (only the key "error"), whatever
\* the branches produced.
C3_SaveFailureIsErrorResult ==
    pc = "done" =>
        /\ IsReport(result) \/ IsError(result)
        /\ ("save" \in faults => IsError(result))
        /\ (IsError(result) => faults # {})

C3_Witness ==
    /\ pc = "done"
    /\ "save" \in faults
    /\ results.video_analysis # None
    /\ results.audio_analysis # None
    /\ IsError(result)

\* C4: a branch whose input is absent issues no inference call and leaves its
\* field null; with both inputs absent no request is ever issued and, when
\* the save succeeds, the report has its timestamp and both fields null.
C4_AbsentBranchDoesNothing ==
    pc \in {"video", "audio", "save", "done"} =>
        /\ (video_file = None =>
               /\ \A k \in 1..Len(requests) : requests[k].kind # "video"
               /\ results.video_analysis = None)
        /\ (audio_file = None =>
               /\ \A k \in 1..Len(requests) : requests[k].kind # "audio"
               /\ (pc # "video" => results.audio_analysis = None))
        /\ (pc = "done" /\ IsReport(result) =>
               /\ (result.video_analysis # None => video_file # None)
               /\ (result.audio_analysis # None => audio_file # None))
        /\ (pc = "done" /\ video_file = None /\ audio_file = None =>
               /\ requests = <<>>
               /\ ("save" \notin faults =>
                      result = [timestamp |-> results.timestamp,
                                video_analysis |-> None, audio_analysis |-> None]))

C4_Witness ==
    /\ pc = "done"
    /\ video_file = None
    /\ audio_file = None
    /\ IsReport(result)
    /\ requests = <<>>

\* C5: extract_frames visits exactly the indices 0, s, 2s, ... below T with
\* s = max(1, T div C) until C frames are held, returns the frames that
\* decoded in increasing index order, skips the others, and returns at most
\* C frames; T = 100, C = 10 with no failures gives 0, 10, ..., 90.
C5_FrameSampling ==
    (pc \in {"extracted", "requested"} /\ ~fOut.raised) =>
        LET T == fVideo.count
            s == IF T \div fMax >= 1 THEN T \div fMax ELSE 1
            visited == fOut.visited
            frames == fOut.frames
            Decodes(i) == i \notin fVideo.bad
            kept == SelectSeq(visited, Decodes)
        IN  /\ \A k \in 1..Len(visited) : visited[k] = (k - 1) * s /\ visited[k] < T
            /\ Len(frames) = Len(kept)
            /\ \A k \in 1..Len(frames) : frames[k].index = kept[k]
            /\ \A k \in 1..(Len(frames) - 1) : frames[k].index < frames[k + 1].index
            /\ Len(frames) <= fMax
            /\ (Len(frames) < fMax => Len(visited) * s >= T)
            /\ (T = 100 /\ fMax = 10 /\ fVideo.bad = {} =>
                   [k \in 1..Len(frames) |-> frames[k].index]
                      = <<0, 10, 20, 30, 40, 50, 60, 70, 80, 90>>)

C5_Witness ==
    /\ pc = "extracted"
    /\ ~fOut.raised
    /\ \E k \in 1..Len(fOut.visited) : fOut.visited[k] \in fVideo.bad
    /\ Len(fOut.frames) = fMax
    /\ fVideo.count \div fMax >= 2

\* C6: once an invocation has returned, it has left no temporary media file
\* on disk and no capture handle unreleased.
C6_ResourcesReleased ==
    pc = "done" => tempFiles = {} /\ unreleasedCaps = 0

\* C7: the output directory holds one file per invocation that returned a
\* report, each holding the report that invocation returned.
C7_OneFilePerInvocation ==
    /\ Cardinality(files) = Len(returned)
    /\ \A k \in 1..Len(returned) : \E f \in files : f.content = returned[k]

\* C8: with a credential the service does not accept, no branch starts (no
\* temporary file, no decode, no inference call, nothing persisted) and the
\* invocation ends with an error-tagged result.
C8_InvalidCredentialIsFatal ==
    (pc \in {"video", "audio", "save", "done"} /\ ~ServiceAccepts(api_key)) =>
        /\ requests = <<>>
        /\ tempFiles = {}
        /\ Range(log) \cap {"Analyzing video...", "Analyzing audio...", "Results saved"} = {}
        /\ (pc = "done" => IsError(result))

\* C9 as stated: the audio request shows duration, rms_energy and
\* spectral_centroid with 2 decimal places and zero_crossing_rate with 4.
C9_EnergyTwoPlaces ==
    \A k \in 1..Len(requests) :
        requests[k].kind = "audio" =>
            /\ Len(requests[k].Duration.frac) = 2
            /\ Len(requests[k].Energy.frac) = 2
            /\ Len(requests[k].Spectral.frac) = 2
            /\ Len(requests[k].Voice.frac) = 4

\* C9 as amended: the audio request shows duration and spectral_centroid
\* with 2 decimal places, rms_energy and zero_crossing_rate with 4, each the
\* extracted value rounded to that precision.
C9_EnergyFourPlaces ==
    \A k \in 1..Len(requests) :
        requests[k].kind = "audio" =>
            LET r == requests[k]
                f == audio_file.features
            IN  /\ Len(r.Duration.frac) = 2 /\ r.Duration = FormatFixed(f.duration, 2)
                /\ Len(r.Energy.frac) = 4 /\ r.Energy = FormatFixed(f.rms_energy, 4)
                /\ Len(r.Spectral.frac) = 2 /\ r.Spectral = FormatFixed(f.spectral_centroid, 2)
                /\ Len(r.Voice.frac) = 4 /\ r.Voice = FormatFixed(f.zero_crossing_rate, 4)
                /\ (f = Features(125000, 4960, 1523456789, 87654) =>
                       /\ r.Duration = [int |-> 0, frac |-> <<1, 2>>]
                       /\ r.Energy = [int |-> 0, frac |-> <<0, 0, 5, 0>>]
                       /\ r.Spectral = [int |-> 1523, frac |-> <<4, 6>>]
                       /\ r.Voice = [int |-> 0, frac |-> <<0, 8, 7, 7>>])

C9_Witness ==
    /\ pc = "done"
    /\ \E k \in 1..Len(requests) :
          /\ requests[k].kind = "audio"
          /\ requests[k].Energy = [int |-> 0, frac |-> <<0, 0, 5, 0>>]

\* C10: when every visited index decodes, extract_frames returns exactly
\* min(T, C) frames; the video request is the instruction text followed by
\* the extracted frames in order, at most 10 of them, all of them when the
\* cap is the default; the request is built whatever the number of frames,
\* zero included.
C10_RequestCarriesFrames ==
    /\ (pc \in {"extracted", "requested"} /\ ~fOut.raised
          /\ (\A k \in 1..Len(fOut.visited) : fOut.visited[k] \notin fVideo.bad)
        => Len(fOut.frames) = (IF fVideo.count <= fMax THEN fVideo.count ELSE fMax))
    /\ (pc = "extracted" /\ ~fOut.raised => ENABLED FramesRequest)
    /\ (pc = "requested" =>
          /\ fReq.kind = "video" /\ fReq.text = "video_prompt"
          /\ Len(fReq.images) <= 10
          /\ Len(fReq.images) = (IF Len(fOut.frames) <= 10 THEN Len(fOut.frames) ELSE 10)
          /\ (fMax <= DefaultMaxFrames => Len(fReq.images) = Len(fOut.frames))
          /\ \A k \in 1..Len(fReq.images) :
                /\ fReq.images[k].image = fOut.frames[k].index
                /\ fReq.images[k].channels = "RGB")

C10_Witness ==
    /\ pc = "requested"
    /\ fMax = DefaultMaxFrames
    /\ fVideo.count > DefaultMaxFrames
    /\ Len(fReq.images) = 10

====
